---- MODULE Spec2Model ----
(***************************************************************************)
(* rskill: concurrent discovery of target directories (src/main.rs,        *)
(* src/fs.rs) and the interactive session that deletes them (src/cli.rs,   *)
(* src/tui.rs).                                                            *)
(*                                                                         *)
(* The file system is a small fixture: the starting directory has up to    *)
(* MaxRoots immediate children 1..n, child r holds NumMatches(r) target    *)
(* directories (two under the first child, one under the second, none      *)
(* under any other), named by the pair <<r, k>> (the text                  *)
(* "<start>/<r>/<k>/<target>").                                            *)
(***************************************************************************)
EXTENDS Integers, Sequences, FiniteSets, TLC

\* Largest number of immediate children of the starting directory.
MaxRoots == 2

Roots == 1..MaxRoots

\* Number of target directories WalkDir yields under child r.
NumMatches(r) == IF r = 1 THEN 2 ELSE IF r = 2 THEN 1 ELSE 0

\* Size attribute of match <<r, k>> as get_details_entry reports it.
DirSize(r, k) == IF k = 1 THEN 2 ELSE 1

\* The matches whose attribute fetch can fail (an unreadable parent).
ProbeMayFail(r, k) == r = 1 /\ k = 2

\* The sets of matches under child r whose probes can all succeed together.
ProbeOutcomes(r) ==
    {p \in SUBSET (1..NumMatches(r)) :
        \A k \in 1..NumMatches(r) : k \notin p => ProbeMayFail(r, k)}

\* Seconds elapsed since the modification of the parent of match <<r, k>>.
ParentAge(r, k) == IF r = 1 THEN 5 * k ELSE 5

SortKeys == {"None", "Size", "Path", "LastMod"}

\* Events event::read() can deliver to run_tui.
Events == {"Up", "Down", "Space", "q", "Other", "Resize"}

\* Events event::read() can deliver to confirm_delete_all.
ConfirmEvents == {"y", "n", "Resize"}

VARIABLES
    args,           \* Args: delete_all, full, sort
    main_pc,        \* position of main / run_tui
    result,         \* "running", or what main returned: "Ok" or the error
    confirm_key,    \* key read by confirm_delete_all ("none" before)
    start_dir,      \* "none", "home" or "cwd"
    children,       \* the immediate children of the starting directory
    entries,        \* children read_dir has not yet yielded
    handles,        \* spawned passes, in spawn order
    pass,           \* pass[r]: position of scan_directory for child r
    pass_root,      \* pass_root[r]: the root handed to pass r
    failed,         \* failed[r]: canonicalize of the root failed
    batch,          \* batch[r]: `modules` built by pass r
    results,        \* the shared accumulator
    lock,           \* holder of the accumulator's mutex: 0 free, r, or -1 main
    pushed,         \* pushed[r]: entries of batch[r] that extend has appended
    probes,         \* probes[r]: the matches of pass r whose probe returned Some
    scanning,       \* the AtomicBool polled by the spinner
    spinner_pc,     \* position of display_spinner, or how it returned
    modules,        \* App.modules
    scroll,         \* App.scroll
    total_deleted,  \* App.total_deleted
    key,            \* event handled by the last loop iteration
    spawned,        \* spawned[i]: remove_dir_all tasks spawned for entry i
    removal,        \* removal[i]: "none", "inflight", "ok", "failed"
    t_path,         \* is_nested_module / is_dangerous: the path text given
    t_target,       \* is_nested_module: the target name given
    t_applied,      \* the functions that have been applied to the input
    t_nested,       \* what is_nested_module returned
    t_dangerous,    \* what is_dangerous returned
    w_args,         \* scan_directory: target, exclude_hidden, exclude_paths
    w_scanned,      \* the roots scan_directory has been run on
    w_found         \* w_found[r]: the entries scan_directory collected for root r

vars == <<args, main_pc, result, confirm_key, start_dir, children, entries, handles,
          pass,
          pass_root, failed, batch, results, lock, pushed, probes, scanning,
          spinner_pc,
          modules, scroll, total_deleted, key, spawned, removal,
          t_path, t_target, t_applied, t_nested, t_dangerous,
          w_args, w_scanned, w_found>>

scanVars == <<children, entries, handles, pass, pass_root, failed, batch, results, lock,
              pushed, probes>>
spinVars == <<scanning, spinner_pc>>
appVars == <<modules, scroll, total_deleted, key, spawned, removal>>

\* The variables of the runs of the whole program, and those of the runs of
\* single functions of fs.rs on enumerated inputs.
textVars == <<t_path, t_target, t_applied, t_nested, t_dangerous>>
walkVars == <<w_args, w_scanned, w_found>>
fnVars == <<textVars, walkVars>>

----------------------------------------------------------------------------
(* cli::NodeModule and fs::get_dir_details *)

\* NodeModule::new: the entry built from a probe result.
NodeModule_new(path, details) ==
    [path |-> path,
     size |-> IF details.some THEN details.size ELSE 0,
     modified |-> IF details.some THEN details.age ELSE 0,
     deleted |-> FALSE]

\* get_dir_details: Some((size, parent age)) or None when a fetch fails.
get_dir_details(path, ok) ==
    IF ok THEN [some |-> TRUE, size |-> DirSize(path[1], path[2]),
                age |-> ParentAge(path[1], path[2])]
    ELSE [some |-> FALSE, size |-> 0, age |-> 0]

\* No single function is being run.
TextIdle ==
    /\ t_path = <<>>
    /\ t_target = <<>>
    /\ t_applied = {}
    /\ t_nested = FALSE
    /\ t_dangerous = FALSE

WalkIdle ==
    /\ w_args = [target |-> <<>>, exclude_hidden |-> FALSE, exclude_paths |-> <<>>]
    /\ w_scanned = {}
    /\ w_found = <<>>

\* main before its first statement.
ProgramInit ==
    /\ args \in [delete_all : BOOLEAN, full : BOOLEAN, sort : SortKeys]
    /\ main_pc = "start"
    /\ result = "running"
    /\ confirm_key = "none"
    /\ start_dir = "none"
    /\ children = {}
    /\ entries = {}
    /\ handles = <<>>
    /\ pass = [r \in Roots |-> "none"]
    /\ pass_root = [r \in Roots |-> <<>>]
    /\ failed = [r \in Roots |-> FALSE]
    /\ batch = [r \in Roots |-> <<>>]
    /\ results = <<>>
    /\ lock = 0
    /\ pushed = [r \in Roots |-> 0]
    /\ probes = [r \in Roots |-> {}]
    /\ scanning = FALSE
    /\ spinner_pc = "none"
    /\ modules = <<>>
    /\ scroll = 0
    /\ total_deleted = 0
    /\ key = "none"
    /\ spawned = <<>>
    /\ removal = <<>>

Init ==
    /\ TextIdle
    /\ WalkIdle
    /\ ProgramInit

----------------------------------------------------------------------------
(* main, lines 15-20, and confirm_delete_all *)

\* confirm_delete_all reads a key: true for 'y', false for any other key.
confirmed_by(e) == e = "y"

\* MainAfterConfirm with the answer ignored: main goes on either way.
MainAfterConfirm_ignored(c) == main_pc' = "start_dir" /\ result' = result

\* What main does with the answer of confirm_delete_all (lines 16-19).
MainAfterConfirm(c) ==
    IF c THEN main_pc' = "start_dir" /\ result' = result
    ELSE main_pc' = "done" /\ result' = "Ok"

\* main line 15: without --delete-all no confirmation screen is shown.
SkipConfirm ==
    /\ main_pc = "start" /\ ~args.delete_all
    /\ main_pc' = "start_dir"
    /\ UNCHANGED <<fnVars, args, result, confirm_key, start_dir, scanVars, spinVars, appVars>>

\* confirm_delete_all: a key event ends the loop and decides.
ConfirmKey(e) ==
    /\ main_pc = "start" /\ args.delete_all
    /\ e # "Resize"
    /\ confirm_key' = e
    /\ MainAfterConfirm(confirmed_by(e))
    /\ UNCHANGED <<fnVars, args, start_dir, scanVars, spinVars, appVars>>

\* confirm_delete_all: an event that is no key draws the screen again.
ConfirmRedraw ==
    /\ main_pc = "start" /\ args.delete_all
    /\ UNCHANGED vars

\* confirm_delete_all: a terminal operation fails; main returns the error.
ConfirmErr ==
    /\ main_pc = "start" /\ args.delete_all
    /\ main_pc' = "done" /\ result' = "Err(terminal)"
    /\ UNCHANGED <<fnVars, args, confirm_key, start_dir, scanVars, spinVars, appVars>>

----------------------------------------------------------------------------
(* main, lines 21-53: the coordinator *)

\* StartDirOf with the full flag ignored.
StartDirOf_ignores_full(full) == "cwd"

\* The directory whose children are enumerated (lines 24-28).
StartDirOf(full) == IF full THEN "home" ELSE "cwd"

\* Lines 21-35: the starting directory is resolved and the spinner spawned.
StartDirOk ==
    /\ main_pc = "start_dir"
    /\ start_dir' = StartDirOf(args.full)
    /\ scanning' = TRUE
    /\ spinner_pc' = "init"
    /\ main_pc' = "read_dir"
    /\ UNCHANGED <<fnVars, args, result, confirm_key, scanVars, appVars>>

\* Lines 25 and 27: HOME is unset, or canonicalize fails.
StartDirErr ==
    /\ main_pc = "start_dir"
    /\ main_pc' = "done" /\ result' = "Err(start_dir)"
    /\ UNCHANGED <<fnVars, args, confirm_key, start_dir, scanVars, spinVars, appVars>>

\* Line 37: read_dir opens the starting directory, which has n children.
ReadDirOk(n) ==
    /\ main_pc = "read_dir"
    /\ children' = 1..n
    /\ entries' = 1..n
    /\ main_pc' = "enumerate"
    /\ UNCHANGED <<fnVars, args, result, confirm_key, start_dir, handles, pass, pass_root,
                   failed, batch, results, lock, spinVars, appVars, pushed, probes>>

\* Line 37: read_dir fails.
ReadDirErr ==
    /\ main_pc = "read_dir"
    /\ main_pc' = "done" /\ result' = "Err(read_dir)"
    /\ UNCHANGED <<fnVars, args, confirm_key, start_dir, scanVars, spinVars, appVars>>

\* The root handed to the pass spawned for child r (line 41).
RootOf(dir, r) == <<dir, r>>

\* Lines 38-46: the next child is read and a pass is spawned on it.
NextEntry(r) ==
    /\ main_pc = "enumerate"
    /\ r \in entries
    /\ entries' = entries \ {r}
    /\ handles' = Append(handles, r)
    /\ pass' = [pass EXCEPT ![r] = "spawned"]
    /\ pass_root' = [pass_root EXCEPT ![r] = RootOf(start_dir, r)]
    /\ UNCHANGED <<fnVars, args, main_pc, result, confirm_key, start_dir, children, failed,
                   batch, results, lock, spinVars, appVars, pushed, probes>>

\* Line 38: next_entry fails.
NextEntryErr ==
    /\ main_pc = "enumerate"
    /\ entries # {}
    /\ main_pc' = "done" /\ result' = "Err(next_entry)"
    /\ UNCHANGED <<fnVars, args, confirm_key, start_dir, scanVars, spinVars, appVars>>

\* Line 38: next_entry yields None and the loop ends.
EnumerateEnd ==
    /\ main_pc = "enumerate"
    /\ entries = {}
    /\ main_pc' = "join"
    /\ UNCHANGED <<fnVars, args, result, confirm_key, start_dir, scanVars, spinVars, appVars>>

\* HandleReady with the handles not awaited.
HandleReady_unawaited(r) == TRUE

\* handle.await returns once the task of the handle has finished.
HandleReady(r) == pass[r] = "done"

\* Lines 48-50: the handles are awaited in spawn order.
JoinHandle ==
    /\ main_pc = "join"
    /\ handles # <<>>
    /\ HandleReady(Head(handles))
    /\ handles' = Tail(handles)
    /\ UNCHANGED <<fnVars, args, main_pc, result, confirm_key, start_dir, children, entries, pass,
                   pass_root, failed, batch, results, lock, spinVars, appVars, pushed, probes>>

\* Line 52: every handle is joined; the scanning flag is cleared.
StoreScanning ==
    /\ main_pc = "join"
    /\ handles = <<>>
    /\ scanning' = FALSE
    /\ main_pc' = "await_spinner"
    /\ UNCHANGED <<fnVars, args, result, confirm_key, start_dir, scanVars, spinner_pc,
                   appVars>>

\* Line 53: the spinner is awaited; its handle is consumed and its io::Result
\* discarded.
AwaitSpinner ==
    /\ main_pc = "await_spinner"
    /\ spinner_pc \in {"Ok", "Err"}
    /\ spinner_pc' = "joined"
    /\ main_pc' = "lock"
    /\ UNCHANGED <<fnVars, args, result, confirm_key, start_dir, scanVars, scanning,
                   appVars>>

----------------------------------------------------------------------------
(* fs::scan_directory: one pass per child; it runs while the runtime lives *)

\* ScanCanonicalizeErr with the failure propagated: the task dies and the
\* coordinator returns the join error.
ScanCanonicalizeErr_aborts(r) ==
    /\ result = "running"
    /\ pass[r] = "spawned"
    /\ failed' = [failed EXCEPT ![r] = TRUE]
    /\ pass' = [pass EXCEPT ![r] = "done"]
    /\ main_pc' = "done" /\ result' = "Err(join)"
    /\ UNCHANGED <<fnVars, args, confirm_key, start_dir, children, entries, handles,
                   pass_root, batch, results, lock, spinVars, appVars, pushed, probes>>

\* Lines 53-56: canonicalize of the root fails and the pass returns at once.
ScanCanonicalizeErr(r) ==
    /\ result = "running"
    /\ pass[r] = "spawned"
    /\ failed' = [failed EXCEPT ![r] = TRUE]
    /\ pass' = [pass EXCEPT ![r] = "done"]
    /\ UNCHANGED <<fnVars, args, main_pc, result, confirm_key, start_dir, children, entries, handles,
                   pass_root, batch, results, lock, spinVars, appVars, pushed, probes>>

\* BuildModules keeping only the matches whose probe returned Some.
BuildModules_drops_failed(r, probed) ==
    LET all == [k \in 1..NumMatches(r) |->
                   NodeModule_new(<<r, k>>, get_dir_details(<<r, k>>, k \in probed))]
        Probed(m) == m.path[2] \in probed
    IN SelectSeq(all, Probed)

\* Lines 87-94: one entry per match, from its probe (probed: the matches whose
\* attribute fetches succeed).
BuildModules(r, probed) ==
    [k \in 1..NumMatches(r) |->
        NodeModule_new(<<r, k>>, get_dir_details(<<r, k>>, k \in probed))]

\* Lines 58-94: the walk and the probes; the batch is built without the lock.
ScanWalk(r, probed) ==
    /\ result = "running"
    /\ pass[r] = "spawned"
    /\ batch' = [batch EXCEPT ![r] = BuildModules(r, probed)]
    /\ probes' = [probes EXCEPT ![r] = probed]
    /\ pass' = [pass EXCEPT ![r] = "collected"]
    /\ UNCHANGED <<fnVars, args, main_pc, result, confirm_key, start_dir, children, entries, handles,
                   pass_root, failed, results, lock, spinVars, appVars, pushed>>

\* ScanLock without waiting for the mutex to be free.
ScanLock_unguarded(r) ==
    /\ result = "running"
    /\ pass[r] = "collected"
    /\ lock' = r
    /\ pass' = [pass EXCEPT ![r] = "locked"]
    /\ UNCHANGED <<fnVars, args, main_pc, result, confirm_key, start_dir, children, entries, handles,
                   pass_root, failed, batch, results, pushed, spinVars, appVars, probes>>

\* Line 96: results.lock().await.
ScanLock(r) ==
    /\ result = "running"
    /\ pass[r] = "collected"
    /\ lock = 0
    /\ lock' = r
    /\ pass' = [pass EXCEPT ![r] = "locked"]
    /\ UNCHANGED <<fnVars, args, main_pc, result, confirm_key, start_dir, children, entries, handles,
                   pass_root, failed, batch, results, pushed, spinVars, appVars, probes>>

\* Line 97, results.extend(modules): the next entry of the batch is pushed.
ScanExtend(r) ==
    /\ result = "running"
    /\ pass[r] = "locked"
    /\ pushed[r] < Len(batch[r])
    /\ results' = Append(results, batch[r][pushed[r] + 1])
    /\ pushed' = [pushed EXCEPT ![r] = pushed[r] + 1]
    /\ UNCHANGED <<fnVars, args, main_pc, result, confirm_key, start_dir, children, entries, handles,
                   pass, pass_root, failed, batch, lock, spinVars, appVars, probes>>

\* Line 98: the batch has been appended whole; the guard is dropped and the
\* pass ends.
ScanUnlock(r) ==
    /\ result = "running"
    /\ pass[r] = "locked"
    /\ pushed[r] = Len(batch[r])
    /\ lock' = 0
    /\ pass' = [pass EXCEPT ![r] = "done"]
    /\ UNCHANGED <<fnVars, args, main_pc, result, confirm_key, start_dir, children, entries, handles,
                   pass_root, failed, batch, results, pushed, spinVars, appVars, probes>>

----------------------------------------------------------------------------
(* tui::display_spinner *)

\* Lines 148-150: raw mode, alternate screen and terminal are set up.
SpinnerInit ==
    /\ result = "running"
    /\ spinner_pc = "init"
    /\ spinner_pc' = "loop"
    /\ UNCHANGED <<fnVars, args, main_pc, result, confirm_key, start_dir, scanVars,
                   scanning, appVars>>

\* Lines 148-150: one of the three fails and the task returns the error.
SpinnerInitErr ==
    /\ result = "running"
    /\ spinner_pc = "init"
    /\ spinner_pc' = "Err"
    /\ UNCHANGED <<fnVars, args, main_pc, result, confirm_key, start_dir, scanVars,
                   scanning, appVars>>

\* SpinnerContinues with the condition inverted.
SpinnerContinues_inverted == ~scanning

\* Line 152: the loop condition, a load of the scanning flag.
SpinnerContinues == scanning

\* Lines 152-161: a frame is drawn and the task sleeps; the frame index, which
\* only picks the glyph drawn, is not part of the state.
SpinnerFrame ==
    /\ result = "running"
    /\ spinner_pc = "loop"
    /\ SpinnerContinues
    /\ UNCHANGED vars

\* Lines 153-157: terminal.draw fails and the task returns the error.
SpinnerDrawErr ==
    /\ result = "running"
    /\ spinner_pc = "loop"
    /\ SpinnerContinues
    /\ spinner_pc' = "Err"
    /\ UNCHANGED <<fnVars, args, main_pc, result, confirm_key, start_dir, scanVars,
                   scanning, appVars>>

\* Lines 152, 163-165: the flag is clear; the screen is restored (ok) or
\* restoring it fails (~ok).
SpinnerExit(ok) ==
    /\ result = "running"
    /\ spinner_pc = "loop"
    /\ ~SpinnerContinues
    /\ spinner_pc' = IF ok THEN "Ok" ELSE "Err"
    /\ UNCHANGED <<fnVars, args, main_pc, result, confirm_key, start_dir, scanVars,
                   scanning, appVars>>

----------------------------------------------------------------------------
(* main, lines 55-87: the merged result is sorted and handed to run_tui *)

\* Every ordering of the elements of s.
Perms(s) ==
    LET n == Len(s)
        bij == {f \in [1..n -> 1..n] : \A i, j \in 1..n : f[i] = f[j] => i = j}
    IN {[i \in 1..n |-> s[f[i]]] : f \in bij}

\* Lines 61-66: the textual order of "<start>/<r>/<k>/<target>".
PathLess(a, b) ==
    \/ a.path[1] < b.path[1]
    \/ a.path[1] = b.path[1] /\ a.path[2] < b.path[2]

\* The size comparison with its operands in the order of the arguments.
SizeLess_ascending(a, b) == a.size < b.size

\* Lines 71-75: b.size is compared with a.size.
SizeLess(a, b) == b.size < a.size

\* The age comparison with its operands in the order of the arguments.
LastModLess_ascending(a, b) == a.modified < b.modified

\* Line 80: b.modified is compared with a.modified.
LastModLess(a, b) == b.modified < a.modified

\* The comparator main passes for the sort key (lines 58-83).
Less(sort, a, b) ==
    CASE sort = "Path" -> PathLess(a, b)
      [] sort = "Size" -> SizeLess(a, b)
      [] sort = "LastMod" -> LastModLess(a, b)
      [] OTHER -> FALSE

\* sort_unstable_by: any ordering of s no two elements of which are out of
\* order under the comparator (elements that compare equal may land in either
\* order).
sort_unstable_by(s, sort) ==
    {t \in Perms(s) : \A i, j \in 1..Len(t) : i < j => ~Less(sort, t[j], t[i])}

\* Lines 57-85: the vectors main may hand to run_tui.
SortModules(sort, ms) ==
    IF sort = "None" THEN {ms} ELSE sort_unstable_by(ms, sort)

\* main lines 55-87, run_tui lines 57-62 and App::new: the accumulator is
\* locked, sorted into ms, and the session starts on it.
RunTui(ms) ==
    /\ main_pc = "lock"
    /\ lock = 0
    /\ ms \in SortModules(args.sort, results)
    /\ lock' = -1
    /\ modules' = ms
    /\ scroll' = 0
    /\ total_deleted' = 0
    /\ spawned' = [i \in DOMAIN ms |-> 0]
    /\ removal' = [i \in DOMAIN ms |-> "none"]
    /\ main_pc' = "draw"
    /\ UNCHANGED <<fnVars, args, result, confirm_key, start_dir, children, entries, handles, pass,
                   pass_root, failed, batch, results, spinVars, key, pushed, probes>>

\* run_tui lines 57-59: the terminal cannot be set up; run_tui returns the
\* error, main discards it and returns Ok.
RunTuiErr ==
    /\ main_pc = "lock"
    /\ lock = 0
    /\ lock' = -1
    /\ main_pc' = "done" /\ result' = "Ok"
    /\ UNCHANGED <<fnVars, args, confirm_key, start_dir, children, entries, handles, pass, pass_root,
                   failed, batch, results, spinVars, appVars, pushed, probes>>

----------------------------------------------------------------------------
(* tui::run_tui: the render pass *)

\* NodeModule::delete, called at tui.rs line 101: the entry is marked deleted.
delete(m) == [m EXCEPT !.deleted = TRUE]

\* NodeModule::delete: the removal tasks of an entry after it is dispatched.
delete_spawn(n) == n + 1

\* RenderDeletes with the test of m.deleted left out.
RenderDeletes_always(delete_all, m) == delete_all

\* Line 100: the entries a render pass deletes.
RenderDeletes(delete_all, m) == delete_all /\ ~m.deleted

\* Lines 96-103 over the whole list: the sizes the pass adds to the counter.
RECURSIVE RenderAdded(_, _)
RenderAdded(delete_all, ms) ==
    IF ms = <<>> THEN 0
    ELSE (IF RenderDeletes(delete_all, Head(ms)) THEN Head(ms).size ELSE 0)
         + RenderAdded(delete_all, Tail(ms))

\* Lines 64-130: one frame; with --delete-all every entry not yet deleted is
\* deleted while the rows are built.
Render ==
    /\ main_pc = "draw"
    /\ modules' = [i \in DOMAIN modules |->
                      IF RenderDeletes(args.delete_all, modules[i])
                      THEN delete(modules[i]) ELSE modules[i]]
    /\ total_deleted' = total_deleted + RenderAdded(args.delete_all, modules)
    /\ spawned' = [i \in DOMAIN modules |->
                      IF RenderDeletes(args.delete_all, modules[i])
                      THEN delete_spawn(spawned[i]) ELSE spawned[i]]
    /\ removal' = [i \in DOMAIN modules |->
                      IF RenderDeletes(args.delete_all, modules[i])
                      THEN "inflight" ELSE removal[i]]
    /\ key' = "none"
    /\ main_pc' = "read"
    /\ UNCHANGED <<fnVars, args, result, confirm_key, start_dir, scanVars, spinVars, scroll>>

\* Line 130: terminal.draw fails; run_tui returns the error, main returns Ok.
DrawErr ==
    /\ main_pc = "draw"
    /\ key' = "none"
    /\ main_pc' = "done" /\ result' = "Ok"
    /\ UNCHANGED <<fnVars, args, confirm_key, start_dir, scanVars, spinVars,
                   modules, scroll, total_deleted, spawned, removal>>

----------------------------------------------------------------------------
(* cli::App::on_key and the event loop of run_tui *)

\* on_key_scroll with the guard of line 82 left out: Down always advances.
on_key_scroll_unclamped(k, sc, len) ==
    IF k = "Up" /\ sc > 0 THEN sc - 1
    ELSE IF k = "Down" THEN sc + 1
    ELSE sc

\* cli.rs lines 81-82: the cursor after key k on a list of len entries.
on_key_scroll(k, sc, len) ==
    IF k = "Up" /\ sc > 0 THEN sc - 1
    ELSE IF k = "Down" /\ sc < (IF len > 0 THEN len - 1 ELSE 0) THEN sc + 1
    ELSE sc

\* on_key_selects with the early return of lines 85-87 left out.
on_key_selects_again(k, ms, sc) ==
    /\ k = "Space"
    /\ sc + 1 \in DOMAIN ms

\* cli.rs lines 83-87: Space acts when the cursor is on an entry that is not
\* deleted.
on_key_selects(k, ms, sc) ==
    /\ k = "Space"
    /\ sc + 1 \in DOMAIN ms
    /\ ~ms[sc + 1].deleted

\* on_key_counter with the addition of line 94 left out.
on_key_counter_forgot(total, m) == total

\* cli.rs line 94: the counter after the entry m is selected.
on_key_counter(total, m) == total + m.size

\* App::on_key with Space flipping the deleted flag of the entry under the
\* cursor, whatever it was.
App_on_key_toggles(k) ==
    /\ scroll' = on_key_scroll(k, scroll, Len(modules))
    /\ IF k = "Space" /\ scroll + 1 \in DOMAIN modules
       THEN /\ modules' = [modules EXCEPT ![scroll + 1].deleted = ~@]
            /\ spawned' = [spawned EXCEPT ![scroll + 1] = @ + 1]
            /\ removal' = [removal EXCEPT ![scroll + 1] = "inflight"]
            /\ total_deleted' = on_key_counter(total_deleted, modules[scroll + 1])
       ELSE UNCHANGED <<modules, spawned, removal, total_deleted>>

\* cli.rs lines 79-99: App::on_key.
App_on_key(k) ==
    /\ scroll' = on_key_scroll(k, scroll, Len(modules))
    /\ IF on_key_selects(k, modules, scroll)
       THEN /\ modules' = [modules EXCEPT ![scroll + 1].deleted = TRUE]
            /\ spawned' = [spawned EXCEPT ![scroll + 1] = @ + 1]
            /\ removal' = [removal EXCEPT ![scroll + 1] = "inflight"]
            /\ total_deleted' = on_key_counter(total_deleted, modules[scroll + 1])
       ELSE UNCHANGED <<modules, spawned, removal, total_deleted>>

\* tui.rs lines 132-137: a key other than 'q' goes to on_key.
ReadKey(e) ==
    /\ main_pc = "read"
    /\ e \notin {"q", "Resize"}
    /\ key' = e
    /\ App_on_key(e)
    /\ main_pc' = "draw"
    /\ UNCHANGED <<fnVars, args, result, confirm_key, start_dir, scanVars, spinVars>>

\* tui.rs line 132: an event that is no key only starts the next iteration.
ReadOther ==
    /\ main_pc = "read"
    /\ key' = "Resize"
    /\ main_pc' = "draw"
    /\ UNCHANGED <<fnVars, args, result, confirm_key, start_dir, scanVars, spinVars,
                   modules, scroll, total_deleted, spawned, removal>>

\* tui.rs lines 133-141 and main line 88: 'q' leaves the loop; main returns.
Quit ==
    /\ main_pc = "read"
    /\ key' = "none"
    /\ main_pc' = "done" /\ result' = "Ok"
    /\ UNCHANGED <<fnVars, args, confirm_key, start_dir, scanVars, spinVars,
                   modules, scroll, total_deleted, spawned, removal>>

\* tui.rs line 132: event::read fails; run_tui returns the error, main Ok.
ReadErr ==
    /\ main_pc = "read"
    /\ main_pc' = "done" /\ result' = "Ok"
    /\ UNCHANGED <<fnVars, args, confirm_key, start_dir, scanVars, spinVars, appVars>>

\* RemoveDirAll reporting back: a failed removal unmarks the entry and takes
\* its size off the counter.
RemoveDirAll_reconciles(i, ok) ==
    /\ i \in DOMAIN removal
    /\ removal[i] = "inflight"
    /\ removal' = [removal EXCEPT ![i] = IF ok THEN "ok" ELSE "failed"]
    /\ modules' = [modules EXCEPT ![i].deleted = ok]
    /\ total_deleted' = IF ok THEN total_deleted ELSE total_deleted - modules[i].size
    /\ UNCHANGED <<fnVars, args, main_pc, result, confirm_key, start_dir, scanVars,
                   spinVars, scroll, key, spawned>>

\* cli.rs line 92: a spawned remove_dir_all ends, removed (ok) or not; nothing
\* is reported back.
RemoveDirAll(i, ok) ==
    /\ i \in DOMAIN removal
    /\ removal[i] = "inflight"
    /\ removal' = [removal EXCEPT ![i] = IF ok THEN "ok" ELSE "failed"]
    /\ UNCHANGED <<fnVars, args, main_pc, result, confirm_key, start_dir, scanVars,
                   spinVars, modules, scroll, total_deleted, key, spawned>>

----------------------------------------------------------------------------

Next ==
    \/ SkipConfirm
    \/ \E e \in ConfirmEvents : ConfirmKey(e)
    \/ ConfirmRedraw
    \/ ConfirmErr
    \/ StartDirOk
    \/ StartDirErr
    \/ \E n \in 0..MaxRoots : ReadDirOk(n)
    \/ ReadDirErr
    \/ \E r \in Roots : NextEntry(r)
    \/ NextEntryErr
    \/ EnumerateEnd
    \/ JoinHandle
    \/ StoreScanning
    \/ AwaitSpinner
    \/ \E r \in Roots : ScanCanonicalizeErr(r)
    \/ \E r \in Roots : \E probed \in ProbeOutcomes(r) : ScanWalk(r, probed)
    \/ \E r \in Roots : ScanLock(r)
    \/ \E r \in Roots : ScanExtend(r)
    \/ \E r \in Roots : ScanUnlock(r)
    \/ SpinnerInit
    \/ SpinnerInitErr
    \/ SpinnerFrame
    \/ SpinnerDrawErr
    \/ \E ok \in BOOLEAN : SpinnerExit(ok)
    \/ \E ms \in SortModules(args.sort, results) : RunTui(ms)
    \/ RunTuiErr
    \/ Render
    \/ DrawErr
    \/ \E e \in Events : ReadKey(e)
    \/ ReadOther
    \/ Quit
    \/ ReadErr
    \/ \E i \in DOMAIN removal : \E ok \in BOOLEAN : RemoveDirAll(i, ok)

Spec == Init /\ [][Next]_vars

----------------------------------------------------------------------------
(* Properties *)

RECURSIVE SumSeq(_)
SumSeq(s) == IF s = <<>> THEN 0 ELSE Head(s) + SumSeq(Tail(s))

Range(s) == {s[i] : i \in DOMAIN s}

\* The passes the coordinator has launched.
Launched == {r \in Roots : pass[r] # "none"}

\* The interactive loop is running.
InSession == main_pc \in {"draw", "read"}

\* The accumulator has been locked by main for the session (line 55).
Handed == lock = -1

\* A step of the event loop that handles key k.
KeyStep(k) == main_pc = "read" /\ main_pc' = "draw" /\ key' = k

\* A render pass.
RenderStep == main_pc = "draw" /\ main_pc' = "read"

\* A spawned removal ends.
RemovalStep ==
    \E i \in DOMAIN removal :
        /\ removal[i] = "inflight"
        /\ i \in DOMAIN removal'
        /\ removal'[i] \in {"ok", "failed"}

\* The sizes of the entries of ms at the indices in I, summed.
SizeOver(ms, I) ==
    SumSeq([i \in DOMAIN ms |-> IF i \in I THEN ms[i].size ELSE 0])

\* C1: in every reachable state total_deleted is the sum of the sizes of
\* exactly the entries whose deleted flag is set.
C1_CounterIsSumOfDeleted ==
    total_deleted = SizeOver(modules, {i \in DOMAIN modules : modules[i].deleted})

\* C1 witness: a session with a deleted and an undeleted entry and a counter
\* above zero.
C1_Witness ==
    /\ InSession
    /\ total_deleted > 0
    /\ \E i, j \in DOMAIN modules : modules[i].deleted /\ ~modules[j].deleted

\* The cursor is an index of the list, or 0 on an empty list.
ScrollInBounds ==
    IF Len(modules) > 0 THEN scroll \in 0..(Len(modules) - 1) ELSE scroll = 0

\* Up at index 0 and Down at the last index leave the cursor where it was.
ScrollClamped ==
    /\ KeyStep("Up") /\ scroll = 0 => scroll' = scroll
    /\ KeyStep("Down") /\ scroll + 1 >= Len(modules) => scroll' = scroll

\* C2: the cursor stays in [0, len-1] (0 on an empty list) and neither Up at
\* index 0 nor Down at the last index moves it.
C2_CursorInBounds == []ScrollInBounds /\ [][ScrollClamped]_vars

\* C2 witness: Down has been handled on a list of one entry, at its last index.
C2_Witness ==
    /\ main_pc = "draw"
    /\ key = "Down"
    /\ Len(modules) = 1
    /\ scroll = 0

\* Every entry a removal was spawned for is deleted, and the counter is the
\* sum of the sizes of those entries, whatever became of the removals.
SelectedAccounted ==
    LET selected == {i \in DOMAIN modules : spawned[i] >= 1}
    IN /\ \A i \in selected : modules[i].deleted
       /\ total_deleted = SizeOver(modules, selected)

\* C3: after selections of distinct entries each of them is deleted and the
\* counter is the sum of their sizes, whether the removals succeeded, failed
\* or are in flight; the end of a removal changes no flag, counter or cursor.
C3_OutcomeIgnored ==
    /\ []SelectedAccounted
    /\ [][RemovalStep => UNCHANGED <<modules, total_deleted, scroll>>]_vars

\* C3 witness: three entries selected one by one; one removal failed, one
\* succeeded, one is in flight, and the counter holds all three sizes.
C3_Witness ==
    /\ ~args.delete_all
    /\ Len(modules) = 3
    /\ removal = <<"failed", "ok", "inflight">>
    /\ total_deleted = modules[1].size + modules[2].size + modules[3].size
    /\ total_deleted > 0

\* Space on an entry already deleted changes nothing of the session.
SelectDeletedNoOp ==
    (/\ KeyStep("Space")
     /\ scroll + 1 \in DOMAIN modules
     /\ modules[scroll + 1].deleted)
    => UNCHANGED <<modules, total_deleted, scroll, spawned, removal>>

\* C4: selecting an entry already deleted is a no-op, and no entry ever has
\* more than one removal spawned for it.
C4_SelectOnce ==
    /\ [][SelectDeletedNoOp]_vars
    /\ [](\A i \in DOMAIN spawned : spawned[i] <= 1)

\* C4 witness: in bulk mode every entry is deleted by the first render pass, so
\* a Space that has been handled was handled on a deleted entry.
C4_Witness ==
    /\ args.delete_all
    /\ main_pc = "draw"
    /\ key = "Space"
    /\ modules # <<>>

\* C5: once the confirmation screen has read a key other than 'y', main has
\* returned and nothing was launched, marked, dispatched or shown.
C5_DeclineDoesNothing ==
    (args.delete_all /\ confirm_key \notin {"none", "y"}) =>
        /\ main_pc = "done" /\ result = "Ok"
        /\ start_dir = "none"
        /\ Launched = {} /\ handles = <<>> /\ results = <<>>
        /\ spinner_pc = "none" /\ ~scanning
        /\ modules = <<>> /\ spawned = <<>> /\ removal = <<>>
        /\ total_deleted = 0

\* C5 witness: the confirmation was declined.
C5_Witness == args.delete_all /\ confirm_key = "n" /\ main_pc = "done"

\* The removals spawned so far.
TotalSpawned(sp) == SumSeq(sp)

\* Nothing is deleted or dispatched when the session starts.
BulkIsLazy ==
    (args.delete_all /\ main_pc = "draw" /\ key = "none") =>
        \A i \in DOMAIN modules : ~modules[i].deleted /\ spawned[i] = 0

\* A bulk render pass leaves every entry deleted with exactly one removal
\* spawned, and skips the entries that were deleted already.
BulkRenderAll ==
    (args.delete_all /\ RenderStep) =>
        LET fresh == {i \in DOMAIN modules : ~modules[i].deleted}
        IN /\ \A i \in DOMAIN modules :
                /\ modules'[i].deleted
                /\ spawned'[i] = 1
                /\ modules[i].deleted => spawned'[i] = spawned[i]
           /\ total_deleted' = total_deleted + SizeOver(modules, fresh)

\* C6 as stated: a bulk render pass dispatches at most one removal, each entry
\* is dispatched once, and a deleted entry is skipped.
C6_OnePerRenderPass ==
    /\ []BulkIsLazy
    /\ [][(args.delete_all /\ RenderStep) =>
            /\ TotalSpawned(spawned') - TotalSpawned(spawned) <= 1
            /\ \A i \in DOMAIN modules :
                 /\ spawned'[i] <= 1
                 /\ modules[i].deleted => spawned'[i] = spawned[i]]_vars

\* C6 amended: bulk deletion is dispatched lazily by the render passes, not at
\* confirmation; the first render pass of a non-empty list deletes and
\* dispatches every entry, each exactly once, and every later pass skips them.
C6_AllInFirstRenderPass == []BulkIsLazy /\ [][BulkRenderAll]_vars

\* C6 witness: a bulk session after a render pass, all three entries deleted
\* and dispatched once.
C6_Witness ==
    /\ args.delete_all
    /\ main_pc = "read"
    /\ Len(modules) = 3
    /\ \A i \in DOMAIN modules : modules[i].deleted /\ spawned[i] = 1

\* The entries of every batch, as a set, and their number.
AllBatches == UNION {Range(batch[r]) : r \in Roots}
RECURSIVE BatchLen(_)
BatchLen(n) == IF n = 0 THEN 0 ELSE Len(batch[n]) + BatchLen(n - 1)

\* The entry m as its pass built it.
Undeleted(m) == [m EXCEPT !.deleted = FALSE]

\* At and after the handoff every launched pass has ended and the accumulator
\* holds the batch of every pass, nothing more.
HandoffComplete ==
    Handed =>
        /\ handles = <<>>
        /\ \A r \in Launched : pass[r] = "done"
        /\ Launched = children
        /\ Range(results) = AllBatches
        /\ Len(results) = BatchLen(MaxRoots)
        /\ InSession => {Undeleted(modules[i]) : i \in DOMAIN modules} = AllBatches
        /\ InSession => Len(modules) = Len(results)

\* C7: the session starts only after every launched pass has ended; the list
\* handed over holds every batch, and no pass moves or appends afterwards.
C7_HandoffAfterAllPasses ==
    /\ []HandoffComplete
    /\ [][Handed => (pass' = pass /\ results' = results /\ batch' = batch)]_vars

\* C7 witness: a session on the three entries of two finished passes.
C7_Witness ==
    /\ InSession
    /\ Len(modules) = 3
    /\ Launched = {1, 2}

\* A failed pass has ended with an empty batch.
FailedIsEmpty ==
    \A r \in Roots : failed[r] => pass[r] = "done" /\ batch[r] = <<>>

\* The session holds the batches of the passes that did not fail.
OthersMerged ==
    InSession =>
        {Undeleted(modules[i]) : i \in DOMAIN modules}
            = UNION {Range(batch[r]) : r \in {q \in Roots : ~failed[q]}}

\* C8: a pass whose root fails contributes an empty batch and does not stop
\* the coordinator; the other batches are merged and the session is entered.
C8_FailedPassIsEmpty ==
    /\ [](FailedIsEmpty /\ OthersMerged /\ result # "Err(join)")
    /\ [][failed' # failed => (main_pc' = main_pc /\ result' = result)]_vars

\* C8 witness: the pass of the second child failed and the session runs on the
\* two entries of the first.
C8_Witness ==
    /\ InSession
    /\ failed[2] /\ ~failed[1]
    /\ Len(modules) = 2

\* display_spinner has returned.
SpinnerReturned == spinner_pc \in {"Ok", "Err", "joined"}

\* Every pass is joined and the scanning flag is cleared (line 52).
CompletionSignalled ==
    /\ ~scanning
    /\ handles = <<>>
    /\ main_pc \notin {"start", "start_dir", "read_dir", "enumerate", "join"}
    /\ \A r \in Launched : pass[r] = "done"

EnumerationDone ==
    \/ main_pc \in {"join", "await_spinner", "lock", "draw", "read"}
    \/ main_pc = "done" /\ Handed

----------------------------------------------------------------------------
(* Ordering of the list handed to the session (main.rs lines 57-85) *)

\* The list the session holds is a reordering of the accumulator: the same
\* entries with the same multiplicities (deleted flags apart).
IsPermutationOfResults ==
    \E f \in [DOMAIN modules -> DOMAIN results] :
        /\ \A i, j \in DOMAIN modules : f[i] = f[j] => i = j
        /\ \A i \in DOMAIN modules : Undeleted(modules[i]) = results[f[i]]

\* Every adjacent pair of the session's list has the younger entry first.
AgeAscending ==
    \A i \in 1..(Len(modules) - 1) : modules[i].modified <= modules[i + 1].modified

\* Every adjacent pair of the session's list has the older entry first.
AgeDescending ==
    \A i \in 1..(Len(modules) - 1) : modules[i].modified >= modules[i + 1].modified

\* C11 as stated: with sort key last-mod the list given to the session is
\* ascending in the stored age, a.modified <= b.modified for every adjacent
\* pair (a, b).
C11_RecentFirst ==
    (InSession /\ args.sort = "LastMod") => AgeAscending

\* C11: with sort key last-mod the list given to the session is a permutation
\* of the merged scan result that is descending in the stored age (the entry
\* modified longest ago first): a.modified >= b.modified for every adjacent
\* pair (a, b).
C11_OldestFirst ==
    (InSession /\ args.sort = "LastMod") =>
        /\ AgeDescending
        /\ IsPermutationOfResults

\* A session on three entries sorted by last-mod whose ages differ.
C11_Witness ==
    /\ InSession
    /\ args.sort = "LastMod"
    /\ Len(modules) = 3
    /\ modules[1].modified > modules[3].modified

\* Every adjacent pair of the session's list has the larger entry first.
SizeDescending ==
    \A i \in 1..(Len(modules) - 1) : modules[i].size >= modules[i + 1].size

\* C12: with sort key size the list given to the session is a permutation of
\* the merged scan result in which a.size >= b.size for every adjacent pair
\* (a, b).
C12_LargestFirst ==
    (InSession /\ args.sort = "Size") =>
        /\ SizeDescending
        /\ IsPermutationOfResults

\* A session on three entries sorted by size whose sizes differ, reached from
\* an accumulator that was not in that order.
C12_Witness ==
    /\ InSession
    /\ args.sort = "Size"
    /\ Len(modules) = 3
    /\ modules[1].size > modules[3].size
    /\ \E i \in 1..(Len(results) - 1) : results[i].size < results[i + 1].size

----------------------------------------------------------------------------
(* Startup errors (main.rs lines 24-37) *)

\* main has returned the error of resolving the starting directory (HOME
\* unset in full mode, or canonicalize failing) or of opening it (read_dir).
StartupError == result \in {"Err(start_dir)", "Err(read_dir)"}

\* No screen has been started: neither the confirmation screen nor the
\* spinner task.
NoScreenStarted == confirm_key = "none" /\ spinner_pc = "none"

\* C15 as stated: in every execution that ends in a startup error, neither
\* the spinner task nor any other screen has been started.
C15_NoScreenOnStartupError == StartupError => NoScreenStarted

----------------------------------------------------------------------------
(* The accumulator and its lock (fs.rs lines 96-98) *)

\* The orders in which the passes of the set S can have appended.
Orders(S) ==
    {f \in [1..Cardinality(S) -> S] : \A i, j \in 1..Cardinality(S) : f[i] = f[j] => i = j}

\* The batches of the passes o[1], ..., o[n], one after the other.
RECURSIVE ConcatBatches(_, _)
ConcatBatches(o, n) ==
    IF n = 0 THEN <<>> ELSE ConcatBatches(o, n - 1) \o batch[o[n]]

\* The passes that have ended.
Ended == {r \in Roots : pass[r] = "done"}

\* What the pass holding the lock has appended so far.
HolderPrefix ==
    IF lock \in Roots THEN SubSeq(batch[lock], 1, pushed[lock]) ELSE <<>>

\* A pass holds the lock exactly between its lock() and the end of its
\* extend: never while it walks or probes, and never two passes at once.
LockOnlyForAppend ==
    /\ \A r \in Roots : lock = r <=> pass[r] = "locked"
    /\ Cardinality({r \in Roots : pass[r] = "locked"}) <= 1

\* A pass that has ended has appended its whole batch, a pass that has not
\* locked has appended nothing.
WholeBatchOnce ==
    \A r \in Roots :
        /\ pass[r] = "done" => pushed[r] = Len(batch[r])
        /\ pass[r] \in {"none", "spawned", "collected"} => pushed[r] = 0

\* The accumulator is the batches of the ended passes, whole and one after
\* the other in some order, followed by what the lock holder has appended.
BatchesContiguous ==
    \E o \in Orders(Ended) : results = ConcatBatches(o, Cardinality(Ended)) \o HolderPrefix

\* C19: the lock is held only for the append, each pass appends its whole
\* batch once, and under every interleaving the accumulator is the batches
\* one after the other, each contiguous, with no entry lost or duplicated.
C19_BatchesAppendedWhole ==
    /\ LockOnlyForAppend
    /\ WholeBatchOnce
    /\ BatchesContiguous
    /\ Handed => Len(results) = BatchLen(MaxRoots)

\* Both passes have appended whole, the pass of the second child first.
C19_Witness ==
    /\ \A r \in {1, 2} : pass[r] = "done"
    /\ Len(results) = 3
    /\ results[1].path = <<2, 1>>
    /\ results[2].path[1] = 1
    /\ results[3].path[1] = 1

----------------------------------------------------------------------------
(* The entries during a session (cli.rs lines 79-99, tui.rs lines 96-120) *)

\* The entry after a step is the entry before it, its deleted flag apart,
\* and a deleted flag that was set is still set.
EntryKept(m, n) ==
    /\ n = [m EXCEPT !.deleted = n.deleted]
    /\ m.deleted => n.deleted

\* C20: during a session the list is never shortened or reordered, the path,
\* size and age of an entry never change, and a deleted flag only goes from
\* false to true.
C20_EntriesOnlyMarked ==
    [][Handed =>
          /\ Len(modules') = Len(modules)
          /\ \A i \in DOMAIN modules : EntryKept(modules[i], modules'[i])]_vars

\* A session in which the first entry was selected, its removal failed, and
\* the cursor has moved on to the last entry.
C20_Witness ==
    /\ InSession
    /\ Len(modules) = 3
    /\ modules[1].deleted
    /\ removal[1] = "failed"
    /\ scroll = 2

----------------------------------------------------------------------------
(* Probe failures (fs.rs lines 22-45 and 87-94, cli.rs lines 29-59) *)

\* The pass r has built its batch.
Built(r) == pass[r] \in {"collected", "locked", "done"} /\ ~failed[r]

\* The number of entries of the batch of r that are for the match <<r, k>>.
EntriesFor(r, k) ==
    Cardinality({i \in DOMAIN batch[r] : batch[r][i].path = <<r, k>>})

\* The entry for a match that could not be measured: size 0, no second
\* elapsed since the time it was built at, not deleted.
IsPlaceholder(m) == m.size = 0 /\ m.modified = 0 /\ ~m.deleted

\* C21: a probe failure never drops the match: every match the walk accepts
\* has exactly one entry in the batch of its pass, and the entry of a match
\* whose probe failed has size 0, an age counted from the current time, and
\* deleted = false.
C21_FailedProbeKeepsMatch ==
    \A r \in Roots :
        Built(r) =>
            /\ Len(batch[r]) = NumMatches(r)
            /\ \A k \in 1..NumMatches(r) :
                  /\ EntriesFor(r, k) = 1
                  /\ \A i \in DOMAIN batch[r] :
                        (batch[r][i].path = <<r, k>> /\ k \notin probes[r]) =>
                            IsPlaceholder(batch[r][i])

\* The pass of the first child has ended with the probe of its second match
\* failed: the batch holds both matches, the second as a placeholder, and
\* the accumulator has it.
C21_Witness ==
    /\ pass[1] = "done"
    /\ probes[1] = {1}
    /\ Len(batch[1]) = 2
    /\ batch[1][2].path = <<1, 2>>
    /\ IsPlaceholder(batch[1][2])
    /\ \E i \in DOMAIN results : results[i] = batch[1][2]

----------------------------------------------------------------------------
(* Path text: the str operations fs.rs applies to path.to_string_lossy().  *)
(* A text is a sequence of one-character strings.                          *)

Slash == "/"
Backslash == "\\"
Dot == "."
Comma == ","

\* The pattern p occurs in s at position i.
SubAt(s, p, i) ==
    /\ i >= 1
    /\ i + Len(p) - 1 <= Len(s)
    /\ \A k \in 1..Len(p) : s[i + k - 1] = p[k]

\* str::contains.
Contains(s, p) == \E i \in 1..(Len(s) + 1) : SubAt(s, p, i)

\* str::starts_with and str::ends_with.
StartsWith(s, p) == SubAt(s, p, 1)
EndsWith(s, p) == Len(p) <= Len(s) /\ SubAt(s, p, Len(s) - Len(p) + 1)

\* str::matches(p).count(): the matches are found from left to right and the
\* search resumes after the end of each match, so they never overlap; the
\* empty pattern matches at every character boundary.
RECURSIVE MatchesFrom(_, _, _)
MatchesFrom(s, p, i) ==
    IF i + Len(p) - 1 > Len(s) THEN 0
    ELSE IF SubAt(s, p, i) THEN 1 + MatchesFrom(s, p, i + Len(p))
    ELSE MatchesFrom(s, p, i + 1)

matches_count(s, p) ==
    IF p = <<>> THEN Len(s) + 1 ELSE MatchesFrom(s, p, 1)

\* str::split(c): the pieces between the occurrences of the character c, from
\* left to right; a text without c is a single piece, the empty text included.
RECURSIVE SplitFrom(_, _, _, _)
SplitFrom(s, c, i, piece) ==
    IF i > Len(s) THEN <<piece>>
    ELSE IF s[i] = c THEN <<piece>> \o SplitFrom(s, c, i + 1, <<>>)
    ELSE SplitFrom(s, c, i + 1, Append(piece, s[i]))

split(s, c) == SplitFrom(s, c, 1, <<>>)

DotApp == <<".", "a", "p", "p">>
DotAppSlash == <<".", "a", "p", "p", "/">>
AppData == <<"A", "p", "p", "D", "a", "t", "a">>
BsAppDataBs == <<Backslash>> \o AppData \o <<Backslash>>

\* is_nested_module with the count compared with zero.
is_nested_module_once(path, target) == matches_count(path, target) > 0

\* fs.rs lines 48-50.
is_nested_module(path, target) == matches_count(path, target) > 1

\* Line 106: a piece that starts with '.' and is neither "." nor "..".
is_hidden_part(part) ==
    StartsWith(part, <<Dot>>) /\ part # <<Dot>> /\ part # <<Dot, Dot>>

\* is_dangerous with the pieces of the split on '/' only.
is_dangerous_unix_only(path) ==
    \/ \E part \in Range(split(path, Slash)) : is_hidden_part(part)
    \/ Contains(path, DotAppSlash) \/ EndsWith(path, DotApp)
    \/ Contains(path, BsAppDataBs)

\* fs.rs lines 100-113: the pieces of the split on '/' chained with the
\* pieces of the split on '\'.
is_dangerous(path) ==
    LET is_hidden ==
            \E part \in Range(split(path, Slash)) \cup Range(split(path, Backslash)) :
                is_hidden_part(part)
        is_mac_app == Contains(path, DotAppSlash) \/ EndsWith(path, DotApp)
        is_windows_app == Contains(path, BsAppDataBs)
    IN is_hidden \/ is_mac_app \/ is_windows_app

\* Largest number of tokens of an enumerated path text.
MaxTokens == 3

\* The tokens the enumerated path texts are made of.
Tokens == {<<Slash>>, <<Backslash>>, <<Dot>>, <<"a">>, DotApp, AppData}

\* The concatenations of at most n tokens.
RECURSIVE TokenTexts(_)
TokenTexts(n) ==
    IF n = 0 THEN {<<>>}
    ELSE LET shorter == TokenTexts(n - 1)
         IN shorter \cup {s \o t : s \in shorter, t \in Tokens}

\* The target names is_nested_module is applied to.
TextTargets == {<<>>, <<"a">>, <<"a", "a">>, <<Dot, "a">>, <<"a", Slash, "a">>}

TextInit ==
    /\ ProgramInit
    /\ args = [delete_all |-> FALSE, full |-> FALSE, sort |-> "None"]
    /\ WalkIdle
    /\ t_path \in TokenTexts(MaxTokens)
    /\ t_target \in TextTargets
    /\ t_applied = {}
    /\ t_nested = FALSE
    /\ t_dangerous = FALSE

progVars == <<args, main_pc, result, confirm_key, start_dir, scanVars, spinVars, appVars>>

\* is_nested_module(&path, &target) is called.
Apply_is_nested_module ==
    /\ "is_nested_module" \notin t_applied
    /\ t_nested' = is_nested_module(t_path, t_target)
    /\ t_applied' = t_applied \cup {"is_nested_module"}
    /\ UNCHANGED <<progVars, walkVars, t_path, t_target, t_dangerous>>

\* is_dangerous(&path) is called.
Apply_is_dangerous ==
    /\ "is_dangerous" \notin t_applied
    /\ t_dangerous' = is_dangerous(t_path)
    /\ t_applied' = t_applied \cup {"is_dangerous"}
    /\ UNCHANGED <<progVars, walkVars, t_path, t_target, t_nested>>

TextNext ==
    \/ Apply_is_nested_module
    \/ Apply_is_dangerous

SpecText == TextInit /\ [][TextNext]_vars

\* The number of positions of s at which p occurs.
Occurrences(s, p) == Cardinality({i \in 1..(Len(s) + 1) : SubAt(s, p, i)})

\* p occurs in s at two positions that do not overlap.
OccursTwiceApart(s, p) ==
    \E i, j \in 1..(Len(s) + 1) :
        /\ SubAt(s, p, i)
        /\ SubAt(s, p, j)
        /\ j > i
        /\ j >= i + Len(p)

NestedApplied == "is_nested_module" \in t_applied

\* C13 as stated: is_nested_module(P, T) is false when P contains T exactly
\* once and true when P contains T two or more times.
C13_NestedIffTwoOccurrences ==
    NestedApplied =>
        /\ Occurrences(t_path, t_target) = 1 => ~t_nested
        /\ Occurrences(t_path, t_target) >= 2 => t_nested

\* C13: is_nested_module(P, T) is true exactly when T occurs in P at two or
\* more positions that do not overlap; it is false when P contains T
\* exactly once or not at all.
C13_NestedIffTwoApart ==
    NestedApplied =>
        /\ t_nested <=> OccursTwiceApart(t_path, t_target)
        /\ Occurrences(t_path, t_target) <= 1 => ~t_nested

\* is_nested_module has answered true on a text that holds the target twice.
C13_Witness ==
    /\ NestedApplied
    /\ t_nested
    /\ t_target = <<"a">>
    /\ t_path = <<"a", Slash, "a">>

\* s[i..j] is a segment of s under the separator c: a stretch without c that
\* is bounded on each side by c or by an end of the text.
IsSegment(s, c, i, j) ==
    /\ i = 1 \/ s[i - 1] = c
    /\ j = Len(s) \/ s[j + 1] = c
    /\ \A k \in i..j : s[k] # c

\* Some segment of s, under '/' or under '\', starts with '.' and is neither
\* "." nor "..".
HasHiddenSegment(s) ==
    \E c \in {Slash, Backslash} :
        \E i \in 1..Len(s) : \E j \in i..Len(s) :
            /\ IsSegment(s, c, i, j)
            /\ s[i] = Dot
            /\ ~(j = i)
            /\ ~(j = i + 1 /\ s[j] = Dot)

\* s contains ".app/" or ends with ".app".
HoldsDotApp(s) ==
    \/ \E i \in 1..(Len(s) - 4) : SubSeq(s, i, i + 4) = DotAppSlash
    \/ Len(s) >= 4 /\ SubSeq(s, Len(s) - 3, Len(s)) = DotApp

\* s contains "\AppData\".
HoldsAppData(s) ==
    \E i \in 1..(Len(s) - 8) : SubSeq(s, i, i + 8) = BsAppDataBs

DangerousApplied == "is_dangerous" \in t_applied

----------------------------------------------------------------------------
(* fs::scan_directory, lines 53-85: the traversal of one root.             *)
(*                                                                         *)
(* The file system is a fixture. A path is the sequence of its names; the  *)
(* starting directory is /s and every entry of it is the root of a pass.   *)
(*   /s/a/t  /s/a/t/p/t  /s/a/x/t  /s/.h/t  /s/t/t  /o/t    directories    *)
(*   /s/l -> /o    /s/a/k -> /o    /s/m -> /s/a/t/p                        *)
(*   /s/d -> (nothing)                                      symbolic links *)

StartDir == <<"s">>

Dirs ==
    {<<"s">>, <<"s", "a">>, <<"s", "a", "t">>, <<"s", "a", "t", "p">>,
     <<"s", "a", "t", "p", "t">>, <<"s", "a", "x">>, <<"s", "a", "x", "t">>,
     <<"s", ".h">>, <<"s", ".h", "t">>, <<"s", "t">>, <<"s", "t", "t">>,
     <<"o">>, <<"o", "t">>}

LinkPaths == {<<"s", "l">>, <<"s", "a", "k">>, <<"s", "m">>, <<"s", "d">>}

\* Where the symbolic link p points; <<"gone">> does not exist.
LinkTo(p) ==
    IF p = <<"s", "d">> THEN <<"gone">>
    ELSE IF p = <<"s", "m">> THEN <<"s", "a", "t", "p">>
    ELSE <<"o">>

\* The characters of a name.
NameText(n) == IF n = ".h" THEN <<Dot, "h">> ELSE <<n>>

\* path.to_string_lossy(): "/" before each name.
RECURSIVE PathText(_)
PathText(p) ==
    IF p = <<>> THEN <<>>
    ELSE PathText(SubSeq(p, 1, Len(p) - 1)) \o <<Slash>> \o NameText(p[Len(p)])

\* q is p or lies under p.
IsUnder(q, p) == Len(q) >= Len(p) /\ SubSeq(q, 1, Len(p)) = p

\* read_dir: the entries of the directory p.
ChildrenOf(p) == {q \in Dirs \cup LinkPaths : Len(q) = Len(p) + 1 /\ IsUnder(q, p)}

\* main.rs lines 37-46: each entry of the starting directory is a root.
WalkRoots == ChildrenOf(StartDir)

\* Line 53, std::fs::canonicalize(&root): a symbolic link is resolved, and a
\* link to nothing is an error.
canonicalize(p) ==
    IF p \in LinkPaths
    THEN [ok |-> LinkTo(p) \in Dirs, path |-> LinkTo(p)]
    ELSE [ok |-> TRUE, path |-> p]

\* excluded_paths with the empty items dropped.
excluded_paths_nonempty(a) ==
    IF a.exclude_paths.some
    THEN Range(split(a.exclude_paths.text, Comma)) \ {<<>>}
    ELSE {}

\* Lines 59-64: the items of the list split on ",", or none without a list.
excluded_paths(a) ==
    IF a.exclude_paths.some THEN Range(split(a.exclude_paths.text, Comma)) ELSE {}

\* e.file_name() == target.
is_target(p, a) == NameText(p[Len(p)]) = a.target

\* Lines 73-75.
is_excluded(p, a) == \E x \in excluded_paths(a) : Contains(PathText(p), x)

\* filter_entry without the test of is_nested_module.
filter_entry_keeps_nested(p, a) ==
    IF is_target(p, a)
    THEN ~is_excluded(p, a)
    ELSE (~a.exclude_hidden \/ ~is_dangerous(PathText(p))) /\ ~is_excluded(p, a)

\* Lines 69-82: the predicate given to filter_entry.
filter_entry(p, a) ==
    IF is_target(p, a)
    THEN ~is_nested_module(PathText(p), a.target) /\ ~is_excluded(p, a)
    ELSE (~a.exclude_hidden \/ ~is_dangerous(PathText(p))) /\ ~is_excluded(p, a)

\* Lines 66-83, WalkDir::new(p).follow_links(false) under filter_entry: an
\* entry the predicate rejects is neither yielded nor descended into; a
\* directory that is yielded is descended into, a symbolic link is not.
RECURSIVE WalkDir(_, _)
WalkDir(p, a) ==
    IF ~filter_entry(p, a) THEN {}
    ELSE {p} \cup (IF p \in Dirs
                   THEN UNION {WalkDir(c, a) : c \in ChildrenOf(p)}
                   ELSE {})

\* Lines 53-85: what scan_directory walks and collects for the root it is given.
scan_entries(root, a) ==
    LET c == canonicalize(root)
        walked == IF c.ok THEN WalkDir(c.path, a) ELSE {}
    IN [canonical |-> c,
        walked |-> walked,
        entries |-> {e \in walked : is_target(e, a)}]

\* The values of --exclude: absent, "x", "x,p", "q, t", "" and "q,".
ExcludeLists ==
    {[some |-> FALSE, text |-> <<>>],
     [some |-> TRUE, text |-> <<"x">>],
     [some |-> TRUE, text |-> <<"x", Comma, "p">>],
     [some |-> TRUE, text |-> <<"q", Comma, " ", "t">>],
     [some |-> TRUE, text |-> <<>>],
     [some |-> TRUE, text |-> <<"q", Comma>>]}

WalkTargets == {<<"t">>, <<"x">>}

NotScanned == [canonical |-> [ok |-> FALSE, path |-> <<>>], walked |-> {}, entries |-> {}]

WalkInit ==
    /\ ProgramInit
    /\ args = [delete_all |-> FALSE, full |-> FALSE, sort |-> "None"]
    /\ TextIdle
    /\ w_args \in [target : WalkTargets, exclude_hidden : BOOLEAN,
                   exclude_paths : ExcludeLists]
    /\ w_scanned = {}
    /\ w_found = [r \in WalkRoots |-> NotScanned]

\* scan_directory(root, args, results) up to line 85.
Scan(root) ==
    /\ root \in WalkRoots \ w_scanned
    /\ w_found' = [w_found EXCEPT ![root] = scan_entries(root, w_args)]
    /\ w_scanned' = w_scanned \cup {root}
    /\ UNCHANGED <<progVars, textVars, w_args>>

WalkNext == \E root \in WalkRoots : Scan(root)

SpecWalk == WalkInit /\ [][WalkNext]_vars

\* The entries the passes run so far have collected.
Collected == UNION {w_found[r].entries : r \in w_scanned}

\* q lies strictly under p.
ProperDescendant(q, p) == Len(q) > Len(p) /\ IsUnder(q, p)

\* C16: no reported entry's path is a proper descendant of another reported
\* entry's path.
C16_MatchesDoNotOverlap ==
    \A p, q \in Collected : ~ProperDescendant(q, p)

\* Every root has been scanned for "t" with nothing excluded: /s/a/t is
\* reported, and /s/a/t/p/t, which exists under it, is not.
C16_Witness ==
    /\ w_scanned = WalkRoots
    /\ w_args.target = <<"t">>
    /\ ~w_args.exclude_paths.some
    /\ <<"s", "a", "t">> \in Collected
    /\ <<"s", "a", "t", "p", "t">> \in Dirs \ Collected

\* The entry e is reached from the root r by directories only: it lies under
\* r and neither r nor any directory between r and e is a symbolic link.
ReachedWithoutLink(r, e) ==
    /\ IsUnder(e, r)
    /\ \A k \in Len(r)..(Len(e) - 1) : SubSeq(e, 1, k) \notin LinkPaths

\* C17 as stated: no reported entry is reached through a symbolic link,
\* including when the root handed to the pass is itself a symbolic link.
C17_NoLinkFollowed ==
    \A r \in w_scanned : \A e \in w_found[r].entries : ReachedWithoutLink(r, e)

\* The items of the comma-separated text: the stretches between the commas,
\* empty ones included.
IsItem(text, x) ==
    \E i \in 1..(Len(text) + 1) : \E j \in (i - 1)..Len(text) :
        /\ IsSegment(text, Comma, i, j)
        /\ x = SubSeq(text, i, j)

\* Some item of the configured list is contained in the text of p.
HoldsExcludedItem(p) ==
    /\ w_args.exclude_paths.some
    /\ \E i \in 1..(Len(PathText(p)) + 1) : \E j \in (i - 1)..Len(PathText(p)) :
          IsItem(w_args.exclude_paths.text, SubSeq(PathText(p), i, j))

\* The reasons other than exclusion for which the traversal rejects p.
RejectedOtherwise(p) ==
    IF NameText(p[Len(p)]) = w_args.target
    THEN matches_count(PathText(p), w_args.target) > 1
    ELSE w_args.exclude_hidden /\ is_dangerous(PathText(p))

\* The entries the traversal of root r comes to: the canonical root and the
\* entries of the directories it has walked.
CameTo(r) ==
    IF ~w_found[r].canonical.ok THEN {}
    ELSE {w_found[r].canonical.path} \cup
         UNION {ChildrenOf(d) : d \in w_found[r].walked \cap Dirs}

====
